---- MODULE Spec2Model ----
(***************************************************************************)
(* Relay synchronization engine of the Relay Discord bot.                  *)
(*                                                                         *)
(* Spec      : the multi-channel variant (src/unnamed/part_001): the       *)
(*             messageCreate pipeline, the /webhook command, the /relay    *)
(*             channel administration, one step per await of the code.     *)
(* SpecAllow : the allow-listed variant (src/bot.js; the encrypted         *)
(*             variant src/unnamed/part_000 has the same handlers).        *)
(* SpecRL    : the rate limiter isUserRateLimited on its own, called at    *)
(*             non-decreasing times.                                       *)
(* SpecRot   : rotateWebhooks and scheduleRotation on a persisted store,   *)
(*             with process exits and restarts; SpecRotFair adds weak      *)
(*             fairness of the process steps.                              *)
(* SpecMirror: the messageCreate pipeline with the messageUpdate and       *)
(*             messageDelete handlers running beside it.                   *)
(* SpecPair  : two /webhook handlers interleaved at every await;           *)
(*             SpecPairFair adds weak fairness of each handler's steps.    *)
(* SpecPace  : the rate limiter called with gaps of just under 15 s.       *)
(* SpecRace  : the messageCreate pipeline interleaved with the rotation    *)
(*             pass of the process start.                                  *)
(* SpecFaults: two /relay handlers interleaved at every await, with the    *)
(*             failures that their code does not catch.                    *)
(* SpecAdmin : the /relay handler among the message, update and delete     *)
(*             handlers and a rotation pass.                               *)
(***************************************************************************)
EXTENDS Integers, Sequences, FiniteSets, TLC

\* ---------------------------------------------------------------- constants
RATE_LIMIT_WINDOW == 60000
RATE_LIMIT_MAX == 3
ROTATION_INTERVAL == 86400000

\* ------------------------------------------------------------------- bounds
MaxMsgs == 4
MaxWebhooks == 2
MaxTicks == 1
MaxCalls == 5
MaxTimeRL == 100000
MaxRotTicks == 4
MaxRestarts == 2
MaxRotated == 4
MaxRelayed == 3
MaxReplays == 1
MaxUpdates == 1
MaxEvents == 2

\* The clock of the pipeline specifications advances by a window.
TickStep == RATE_LIMIT_WINDOW
\* The clock of the rate limiter specification advances by these steps, so
\* that a timestamp can be 59999, 60000 and 60001 ms old.
RLSteps == {20000, 39999}

\* The clock of the rotation specification advances by half an interval.
RotStep == ROTATION_INTERVAL \div 2

Authors == {"user", "admin", "bot"}
Users == Authors \cup {"user2"}
Channels == {"c1", "c2"}
ALLOWED_CHANNEL_IDS == {"c1"}
\* the event handlers that can be running at the same time
Handlers == {"h1", "h2"}

NoRow == [webhookId |-> 0, webhookToken |-> 0]
NoMsg == [id |-> 0, kind |-> "none", author |-> "none", channel |-> "none", empty |-> FALSE]
\* db.get of bot_meta returned no row
NoWatermark == -1
\* db.get of message_map returned no row
NoMapping == [originalMessageId |-> 0, webhookMessageId |-> 0, channelId |-> "none",
              webhookId |-> 0, webhookToken |-> 0]

VARIABLES
    now,                \* Date.now()
    userMessageCounts,  \* Map userId -> array of timestamps
    calls,              \* history of isUserRateLimited calls (SpecRL)
    webhooks,           \* table webhooks: channelId -> row
    relay_channels,     \* table relay_channels
    message_map,        \* table message_map: set of rows
    remote,             \* webhook ids that exist on the platform
    nextWebhook,        \* number of webhooks the platform has issued
    originals,          \* user messages that exist on the platform
    posted,             \* messages posted through a webhook
    msg,                \* the event each handler was called with
    pc,                 \* position of each handler
    cred,               \* the handler's newWebhook / webhookCredentials
    log,                \* what each handler has done, in order
    nextMsg,            \* next message / interaction id
    ticks,
    watermark,          \* bot_meta row lastRotationTimestamp
    timer,              \* fire times of the pending setTimeout callbacks
    rpc,                \* position of the rotation scheduler
    caller,             \* who called rotateWebhooks: startup or timer
    snapshot,           \* allWebhooks rows the pass has still to process
    rlog,               \* what the current rotation pass has done, per row
    restarts,           \* number of process restarts
    delivered,          \* messageDelete / messageUpdate events dispatched so far
    content,            \* content version of the relayed copy of each original
    found               \* the mirroring handler's mapping row

vars == <<now, userMessageCounts, calls, webhooks, relay_channels, message_map,
          remote, nextWebhook, originals, posted, msg, pc, cred, log, nextMsg,
          ticks, watermark, timer, rpc, caller, snapshot, rlog, restarts,
          delivered, content, found>>

store == <<webhooks, relay_channels, message_map>>
platform == <<remote, nextWebhook, originals, posted>>
rotation == <<watermark, timer, rpc, caller, snapshot, rlog, restarts>>
mirror == <<delivered, content, found>>

IsBot(u) == u = "bot"

\* IsAdministrator with the permission never granted
IsAdministratorNever(u) == FALSE

IsAdministrator(u) == u = "admin"

\* ------------------------------------------------------------ rate limiter
\* Trim with < in place of <=
RECURSIVE TrimStrict(_, _)
TrimStrict(timestamps, currentTime) ==
    IF Len(timestamps) > 0 /\ Head(timestamps) < currentTime - RATE_LIMIT_WINDOW
    THEN TrimStrict(Tail(timestamps), currentTime)
    ELSE timestamps

\* the while loop that shifts the timestamps that left the window
RECURSIVE Trim(_, _)
Trim(timestamps, currentTime) ==
    IF Len(timestamps) > 0 /\ Head(timestamps) <= currentTime - RATE_LIMIT_WINDOW
    THEN Trim(Tail(timestamps), currentTime)
    ELSE timestamps

\* Recorded without the push when the window is already full
RecordedIfAccepted(timestamps, currentTime) ==
    IF Len(Trim(timestamps, currentTime)) >= RATE_LIMIT_MAX
    THEN Trim(timestamps, currentTime)
    ELSE Append(Trim(timestamps, currentTime), currentTime)

\* the array stored for the user when isUserRateLimited returns
Recorded(timestamps, currentTime) == Append(Trim(timestamps, currentTime), currentTime)

\* isUserRateLimited with >= in place of >
isUserRateLimitedAtMax(timestamps, currentTime) ==
    Len(Recorded(timestamps, currentTime)) >= RATE_LIMIT_MAX

isUserRateLimited(timestamps, currentTime) ==
    Len(Recorded(timestamps, currentTime)) > RATE_LIMIT_MAX

Init ==
    /\ now = 0
    /\ userMessageCounts = [u \in Users |-> <<>>]
    /\ calls = <<>>
    /\ webhooks = [c \in Channels |-> NoRow]
    /\ relay_channels = {}
    /\ message_map = {}
    /\ remote = {}
    /\ nextWebhook = 0
    /\ originals = {}
    /\ posted = {}
    /\ msg = [h \in Handlers |-> NoMsg]
    /\ pc = [h \in Handlers |-> "none"]
    /\ cred = [h \in Handlers |-> NoRow]
    /\ log = [h \in Handlers |-> <<>>]
    /\ nextMsg = 1
    /\ ticks = 0
    /\ watermark = NoWatermark
    /\ timer = <<>>
    /\ rpc = "off"
    /\ caller = "none"
    /\ snapshot = [rows |-> <<>>, at |-> 0, newWebhook |-> NoRow]
    /\ rlog = <<>>
    /\ restarts = 0
    /\ delivered = [deletes |-> {}, replays |-> 0, updates |-> 0]
    /\ content = [m \in 1..MaxMsgs |-> 0]
    /\ found = [h \in Handlers |-> NoMapping]

\* a handler of part_001 that has returned (or has not been called yet):
\* messageCreate ends after the mapping insert or when there is no result,
\* the /webhook command ends when sendWebhookMessage returns
Returned(h) ==
    \/ pc[h] \in {"none", "ignored", "failed", "limited", "nosend", "done", "refused"}
    \/ pc[h] = "sent" /\ msg[h].kind = "command"

Tick ==
    /\ ticks < MaxTicks
    /\ ticks' = ticks + 1
    /\ now' = now + TickStep
    /\ UNCHANGED <<userMessageCounts, calls, store, platform, msg, pc, cred, log, nextMsg, rotation, mirror>>

\* ------------------------------------------------------ platform and users
\* the id the platform gives the message posted for request m
sentId(m) == MaxMsgs + m

Advance(h, to, events) ==
    /\ pc' = [pc EXCEPT ![h] = to]
    /\ log' = [log EXCEPT ![h] = @ \o events]

\* the platform calls a handler with a new event
Dispatch(h, kind, a, c, e, at) ==
    /\ nextMsg <= MaxMsgs
    /\ msg' = [msg EXCEPT ![h] = [id |-> nextMsg, kind |-> kind, author |-> a, channel |-> c, empty |-> e]]
    /\ pc' = [pc EXCEPT ![h] = at]
    /\ log' = [log EXCEPT ![h] = <<>>]
    /\ cred' = [cred EXCEPT ![h] = NoRow]
    /\ nextMsg' = nextMsg + 1

\* a user posts a message: the platform dispatches messageCreate
PostMessage(h, a, c, e) ==
    /\ Returned(h)
    /\ Dispatch(h, "message", a, c, e, "gate")
    /\ originals' = originals \cup {nextMsg}
    /\ UNCHANGED <<now, ticks, rotation, mirror, userMessageCounts, calls, store, remote, nextWebhook, posted>>

\* a user invokes /webhook: the platform dispatches interactionCreate
InvokeWebhookCommand(h, a, c, e) ==
    /\ ~IsBot(a)
    /\ Returned(h)
    /\ Dispatch(h, "command", a, c, e, "cmdgate")
    /\ UNCHANGED <<now, ticks, rotation, mirror, userMessageCounts, calls, store, platform>>

\* a webhook is deleted on the platform by someone else
DeleteWebhookOutOfBand(w) ==
    /\ w \in remote
    /\ remote' = remote \ {w}
    /\ UNCHANGED <<now, ticks, rotation, mirror, userMessageCounts, calls, store, nextWebhook, originals, posted, msg, pc, cred, log, nextMsg>>

\* ------------------------------------------------- /relay (administrator)
RelayAddChannel(c) ==
    /\ c \notin relay_channels
    /\ relay_channels' = relay_channels \cup {c}
    /\ UNCHANGED <<now, ticks, rotation, mirror, userMessageCounts, calls, webhooks, message_map, platform, msg, pc, cred, log, nextMsg>>

RelayRemoveChannel(c) ==
    /\ c \in relay_channels
    /\ relay_channels' = relay_channels \ {c}
    /\ UNCHANGED <<now, ticks, rotation, mirror, userMessageCounts, calls, webhooks, message_map, platform, msg, pc, cred, log, nextMsg>>

\* ----------------------------------------- getOrCreateWebhook (part_001)
isRelayChannel(channelId) == channelId \in relay_channels

\* db.get of the channel's row
GW_Get(h) ==
    /\ pc[h] = "get"
    /\ IF webhooks[msg[h].channel] # NoRow
       THEN /\ cred' = [cred EXCEPT ![h] = webhooks[msg[h].channel]]
            /\ Advance(h, "send", <<"resolved">>)
       ELSE /\ Advance(h, "create", <<>>)
            /\ UNCHANGED cred
    /\ UNCHANGED <<now, ticks, rotation, mirror, userMessageCounts, calls, store, platform, msg, nextMsg>>

\* channel.createWebhook: a new webhook, an error, or error code 10015
GW_Create(h) ==
    /\ pc[h] = "create"
    /\ \/ /\ nextWebhook < MaxWebhooks
          /\ nextWebhook' = nextWebhook + 1
          /\ remote' = remote \cup {nextWebhook + 1}
          /\ cred' = [cred EXCEPT ![h] = [webhookId |-> nextWebhook + 1, webhookToken |-> nextWebhook + 1]]
          /\ Advance(h, "insert", <<"created">>)
       \/ /\ Advance(h, "nosend", <<"noWebhook">>)
          /\ UNCHANGED <<remote, nextWebhook, cred>>
       \/ /\ Advance(h, "purge", <<>>)
          /\ UNCHANGED <<remote, nextWebhook, cred>>
    /\ UNCHANGED <<now, ticks, rotation, mirror, userMessageCounts, calls, store, originals, posted, msg, nextMsg>>

\* INSERT INTO webhooks: channelId is the primary key, a second row throws
GW_Insert(h) ==
    /\ pc[h] = "insert"
    /\ IF webhooks[msg[h].channel] = NoRow
       THEN /\ webhooks' = [webhooks EXCEPT ![msg[h].channel] = cred[h]]
            /\ Advance(h, "send", <<"resolved">>)
            /\ UNCHANGED cred
       ELSE /\ cred' = [cred EXCEPT ![h] = NoRow]
            /\ Advance(h, "nosend", <<"noWebhook">>)
            /\ UNCHANGED webhooks
    /\ UNCHANGED <<now, ticks, rotation, mirror, userMessageCounts, calls, relay_channels, message_map, platform, msg, nextMsg>>

\* catch of error 10015: DELETE FROM webhooks, then the recursive call
GW_Purge(h) ==
    /\ pc[h] = "purge"
    /\ webhooks' = [webhooks EXCEPT ![msg[h].channel] = NoRow]
    /\ Advance(h, "get", <<>>)
    /\ UNCHANGED <<now, ticks, rotation, mirror, userMessageCounts, calls, relay_channels, message_map, platform, msg, cred, nextMsg>>

\* ------------------------------------------ sendWebhookMessage (part_001)
\* the platform accepts a send through a webhook that exists, with content
SendAccepted(h) == cred[h].webhookId \in remote /\ ~msg[h].empty

sentMessage(h) == [id |-> sentId(msg[h].id), webhookId |-> cred[h].webhookId]

\* SW_Send without the catch: the handler goes on as if the message was sent
SW_SendUnchecked(h) ==
    /\ pc[h] = "send"
    /\ \/ /\ SendAccepted(h)
          /\ posted' = posted \cup {sentMessage(h)}
          /\ Advance(h, "sent", <<"send", "sent">>)
       \/ /\ Advance(h, "sent", <<"send", "sendFailed">>)
          /\ UNCHANGED posted
    /\ UNCHANGED <<now, ticks, rotation, mirror, userMessageCounts, calls, store, remote, nextWebhook, originals, msg, cred, nextMsg>>

\* webhookClient.send: the sent message, or a throw that is caught: error
\* 10015 when the webhook no longer exists, or any other failure
SW_Send(h) ==
    /\ pc[h] = "send"
    /\ \/ /\ SendAccepted(h)
          /\ posted' = posted \cup {sentMessage(h)}
          /\ Advance(h, "sent", <<"send", "sent">>)
       \/ /\ cred[h].webhookId \notin remote
          /\ Advance(h, "nosend", <<"send", "unknownWebhook">>)
          /\ UNCHANGED posted
       \/ /\ cred[h].webhookId \in remote
          /\ Advance(h, "nosend", <<"send", "sendFailed">>)
          /\ UNCHANGED posted
    /\ UNCHANGED <<now, ticks, rotation, mirror, userMessageCounts, calls, store, remote, nextWebhook, originals, msg, cred, nextMsg>>

\* -------------------------------------------- messageCreate (part_001)
\* GatePasses without the test of message.author.bot
GatePassesBots(h) == isRelayChannel(msg[h].channel)

GatePasses(h) == ~IsBot(msg[h].author) /\ isRelayChannel(msg[h].channel)

\* MC_Gate going to sendWebhookMessage without message.delete()
MC_GateSkipsDelete(h) ==
    /\ pc[h] = "gate"
    /\ Advance(h, IF GatePasses(h) THEN "get" ELSE "ignored", <<>>)
    /\ UNCHANGED <<now, ticks, rotation, mirror, userMessageCounts, calls, store, platform, msg, cred, nextMsg>>

MC_Gate(h) ==
    /\ pc[h] = "gate"
    /\ Advance(h, IF GatePasses(h) THEN "delete" ELSE "ignored", <<>>)
    /\ UNCHANGED <<now, ticks, rotation, mirror, userMessageCounts, calls, store, platform, msg, cred, nextMsg>>

\* AfterDelete without the return of the limited branch
AfterDeleteNoReturn(h) ==
    LET u == msg[h].author IN
    IF IsAdministrator(u)
    THEN /\ Advance(h, "get", <<"delete">>)
         /\ UNCHANGED userMessageCounts
    ELSE /\ userMessageCounts' = [userMessageCounts EXCEPT ![u] = Recorded(@, now)]
         /\ Advance(h, "get", <<"delete", "ratecheck">>)

\* what follows message.delete() without an await: the rate-limit check
AfterDelete(h) ==
    LET u == msg[h].author IN
    IF IsAdministrator(u)
    THEN /\ Advance(h, "get", <<"delete">>)
         /\ UNCHANGED userMessageCounts
    ELSE /\ userMessageCounts' = [userMessageCounts EXCEPT ![u] = Recorded(@, now)]
         /\ Advance(h, IF isUserRateLimited(userMessageCounts[u], now) THEN "notify" ELSE "get",
                    <<"delete", "ratecheck">>)

\* await message.delete(): the original is removed, or the call throws
MC_Delete(h) ==
    /\ pc[h] = "delete"
    /\ \/ /\ originals' = originals \ {msg[h].id}
          /\ AfterDelete(h)
       \/ /\ Advance(h, "failed", <<"deleteFailed">>)
          /\ UNCHANGED <<originals, userMessageCounts>>
    /\ UNCHANGED <<now, ticks, rotation, mirror, calls, store, remote, nextWebhook, posted, msg, cred, nextMsg>>

\* await originalAuthor.send(...).catch(() => {}), then return
MC_Notify(h) ==
    /\ pc[h] = "notify"
    /\ \E ok \in BOOLEAN : Advance(h, "limited", <<IF ok THEN "notice" ELSE "noticeFailed">>)
    /\ UNCHANGED <<now, ticks, rotation, mirror, userMessageCounts, calls, store, platform, msg, cred, nextMsg>>

mapping(h) ==
    [originalMessageId |-> msg[h].id, webhookMessageId |-> sentId(msg[h].id),
     channelId |-> msg[h].channel,
     webhookId |-> cred[h].webhookId, webhookToken |-> cred[h].webhookToken]

\* if (result && result.sentMessage): INSERT INTO message_map
MC_Map(h) ==
    /\ pc[h] = "sent"
    /\ msg[h].kind = "message"
    /\ message_map' = message_map \cup {mapping(h)}
    /\ Advance(h, "done", <<"map">>)
    /\ UNCHANGED <<now, ticks, rotation, mirror, userMessageCounts, calls, webhooks, relay_channels, platform, msg, cred, nextMsg>>

\* ---------------------------------- interactionCreate /webhook (part_001)
IC_Gate(h) ==
    /\ pc[h] = "cmdgate"
    /\ IF isRelayChannel(msg[h].channel) /\ ~msg[h].empty
       THEN Advance(h, "get", <<"reply">>)
       ELSE Advance(h, "refused", <<"refuse">>)
    /\ UNCHANGED <<now, ticks, rotation, mirror, userMessageCounts, calls, store, platform, msg, cred, nextMsg>>

\* ------------------------------------ interactionCreate /relay (part_001)
Subcommands == {"addchannel", "removechannel"}

\* a member invokes /relay with a subcommand and the option 'kanal'
InvokeRelayCommand(h, a, sub, c) ==
    /\ ~IsBot(a)
    /\ Returned(h)
    /\ Dispatch(h, sub, a, c, FALSE, "relaygate")
    /\ UNCHANGED <<now, ticks, rotation, mirror, userMessageCounts, calls, store, platform>>

\* interaction.reply of the /relay handler: it returns, or it throws and
\* nothing in the handler catches it
RC_Reply(h, to, answer) ==
    \/ Advance(h, to, <<answer>>)
    \/ Advance(h, "escaped", <<"replyFailed">>)

\* RC_Check without the test of the Administrator permission
RC_CheckAnyone(h) ==
    /\ pc[h] = "relaygate"
    /\ IF (msg[h].kind = "addchannel") = (msg[h].channel \in relay_channels)
       THEN RC_Reply(h, "refused", "unchanged")
       ELSE Advance(h, "relaywrite", <<>>)
    /\ UNCHANGED <<now, ticks, rotation, mirror, userMessageCounts, calls, store, platform, msg, cred, nextMsg>>

\* the permission test, then SELECT 1 FROM relay_channels: the handler
\* replies and returns, or goes on to write
RC_Check(h) ==
    /\ pc[h] = "relaygate"
    /\ IF ~IsAdministrator(msg[h].author)
       THEN RC_Reply(h, "refused", "denied")
       ELSE IF (msg[h].kind = "addchannel") = (msg[h].channel \in relay_channels)
            THEN RC_Reply(h, "refused", "unchanged")
            ELSE Advance(h, "relaywrite", <<>>)
    /\ UNCHANGED <<now, ticks, rotation, mirror, userMessageCounts, calls, store, platform, msg, cred, nextMsg>>

\* INSERT INTO relay_channels, which throws when the channel is there by
\* now, or DELETE FROM relay_channels; then the reply
RC_Write(h) ==
    /\ pc[h] = "relaywrite"
    /\ IF msg[h].kind = "addchannel"
       THEN IF msg[h].channel \in relay_channels
            THEN /\ Advance(h, "escaped", <<"constraint">>)
                 /\ UNCHANGED relay_channels
            ELSE /\ relay_channels' = relay_channels \cup {msg[h].channel}
                 /\ RC_Reply(h, "done", "added")
       ELSE /\ relay_channels' = relay_channels \ {msg[h].channel}
            /\ RC_Reply(h, "done", "removed")
    /\ UNCHANGED <<now, ticks, rotation, mirror, userMessageCounts, calls, webhooks, message_map, platform, msg, cred, nextMsg>>

\* the events of the multi-channel variant are handled one at a time, and
\* arrive in one channel
Running == {"h1"}
Watched == {"c1"}

Next ==
    \/ Tick
    \/ \E h \in Running, a \in Authors, c \in Watched, e \in BOOLEAN : PostMessage(h, a, c, e)
    \/ \E h \in Running, a \in Authors, c \in Watched, e \in BOOLEAN : InvokeWebhookCommand(h, a, c, e)
    \/ \E w \in 1..MaxWebhooks : DeleteWebhookOutOfBand(w)
    \/ \E c \in Watched : RelayAddChannel(c)
    \/ \E c \in Watched : RelayRemoveChannel(c)
    \/ \E h \in Running : MC_Gate(h)
    \/ \E h \in Running : MC_Delete(h)
    \/ \E h \in Running : MC_Notify(h)
    \/ \E h \in Running : GW_Get(h)
    \/ \E h \in Running : GW_Create(h)
    \/ \E h \in Running : GW_Insert(h)
    \/ \E h \in Running : GW_Purge(h)
    \/ \E h \in Running : SW_Send(h)
    \/ \E h \in Running : MC_Map(h)
    \/ \E h \in Running : IC_Gate(h)

Spec == Init /\ [][Next]_vars

\* ------------------------------------------------ allow-listed variant
\* a handler of bot.js that has returned: messageCreate goes on to delete
\* the original when sendWebhookMessage returns
ReturnedAllow(h) ==
    \/ pc[h] \in {"none", "ignored", "limited", "empty", "done", "refused"}
    \/ pc[h] \in {"sent", "nosend"} /\ msg[h].kind = "command"

AL_PostMessage(h, a, c, e) ==
    /\ ReturnedAllow(h)
    /\ Dispatch(h, "message", a, c, e, "gate")
    /\ originals' = originals \cup {nextMsg}
    /\ UNCHANGED <<now, ticks, rotation, mirror, userMessageCounts, calls, store, remote, nextWebhook, posted>>

AL_InvokeWebhookCommand(h, a, c, e) ==
    /\ ~IsBot(a)
    /\ ReturnedAllow(h)
    /\ Dispatch(h, "command", a, c, e, "cmdgate")
    /\ UNCHANGED <<now, ticks, rotation, mirror, userMessageCounts, calls, store, platform>>

\* the rate-limit check of a handler: the event is recorded, and the
\* handler goes to `limited` when over the limit, else to `free`
RateCheck(h, limited, free, events) ==
    LET u == msg[h].author IN
    IF IsAdministrator(u)
    THEN /\ Advance(h, free, <<>>)
         /\ UNCHANGED userMessageCounts
    ELSE /\ userMessageCounts' = [userMessageCounts EXCEPT ![u] = Recorded(@, now)]
         /\ Advance(h, IF isUserRateLimited(userMessageCounts[u], now) THEN limited ELSE free,
                    <<"ratecheck">>)

\* messageCreate of bot.js up to its first await
AL_Gate(h) ==
    /\ pc[h] = "gate"
    /\ IF IsBot(msg[h].author) \/ msg[h].channel \notin ALLOWED_CHANNEL_IDS
       THEN /\ Advance(h, "ignored", <<>>)
            /\ UNCHANGED userMessageCounts
       ELSE RateCheck(h, "notify", IF msg[h].empty THEN "empty" ELSE "get", <<>>)
    /\ UNCHANGED <<now, ticks, rotation, mirror, calls, store, platform, msg, cred, nextMsg>>

\* await message.author.send(...).catch(() => {})
AL_Notify(h) ==
    /\ pc[h] = "notify"
    /\ \E ok \in BOOLEAN : Advance(h, "deleteLimited", <<IF ok THEN "notice" ELSE "noticeFailed">>)
    /\ UNCHANGED <<now, ticks, rotation, mirror, userMessageCounts, calls, store, platform, msg, cred, nextMsg>>

\* await message.delete().catch(() => {}): after the notice, or after
\* sendWebhookMessage has returned
AL_Delete(h) ==
    /\ msg[h].kind = "message"
    /\ pc[h] \in {"deleteLimited", "sent", "nosend"}
    /\ \/ /\ originals' = originals \ {msg[h].id}
          /\ Advance(h, IF pc[h] = "deleteLimited" THEN "limited" ELSE "done", <<"delete">>)
       \/ /\ Advance(h, IF pc[h] = "deleteLimited" THEN "limited" ELSE "done", <<"deleteFailed">>)
          /\ UNCHANGED originals
    /\ UNCHANGED <<now, ticks, rotation, mirror, userMessageCounts, calls, store, remote, nextWebhook, posted, msg, cred, nextMsg>>

\* interactionCreate of bot.js up to sendWebhookMessage
AL_IC_Gate(h) ==
    /\ pc[h] = "cmdgate"
    /\ IF msg[h].channel \notin ALLOWED_CHANNEL_IDS \/ msg[h].empty
       THEN /\ Advance(h, "refused", <<"refuse">>)
            /\ UNCHANGED userMessageCounts
       ELSE RateCheck(h, "refused", "get", <<>>)
    /\ UNCHANGED <<now, ticks, rotation, mirror, calls, store, platform, msg, cred, nextMsg>>

NextAllow ==
    \/ Tick
    \/ \E h \in Running, a \in Authors, c \in Channels, e \in BOOLEAN : AL_PostMessage(h, a, c, e)
    \/ \E h \in Running, a \in Authors, c \in Channels, e \in BOOLEAN : AL_InvokeWebhookCommand(h, a, c, e)
    \/ \E w \in 1..MaxWebhooks : DeleteWebhookOutOfBand(w)
    \/ \E h \in Running : AL_Gate(h)
    \/ \E h \in Running : AL_Notify(h)
    \/ \E h \in Running : AL_Delete(h)
    \/ \E h \in Running : AL_IC_Gate(h)
    \/ \E h \in Running : GW_Get(h)
    \/ \E h \in Running : GW_Create(h)
    \/ \E h \in Running : GW_Insert(h)
    \/ \E h \in Running : GW_Purge(h)
    \/ \E h \in Running : SW_Send(h)

SpecAllow == Init /\ [][NextAllow]_vars

\* ------------------------------------------- the rate limiter on its own
Callers == {"user", "user2"}

RL_Call(u) ==
    /\ Len(calls) < MaxCalls
    /\ calls' = Append(calls, [user |-> u, at |-> now,
                               limited |-> isUserRateLimited(userMessageCounts[u], now)])
    /\ userMessageCounts' = [userMessageCounts EXCEPT ![u] = Recorded(@, now)]
    /\ UNCHANGED <<now, ticks, rotation, mirror, store, platform, msg, pc, cred, log, nextMsg>>

RL_Tick(d) ==
    /\ now + d <= MaxTimeRL
    /\ now' = now + d
    /\ UNCHANGED <<ticks, userMessageCounts, calls, store, platform, msg, pc, cred, log, nextMsg, rotation, mirror>>

NextRL ==
    \/ \E u \in Callers : RL_Call(u)
    \/ \E d \in RLSteps : RL_Tick(d)

SpecRL == Init /\ [][NextRL]_vars

\* The rate limiter called at a pace of just under a quarter of the window:
\* the clock moves by one millisecond less than PaceGap.
PaceGap == RATE_LIMIT_WINDOW \div 4

PaceSteps == {PaceGap - 1}

NextPace ==
    \/ \E u \in Callers : RL_Call(u)
    \/ \E d \in PaceSteps : RL_Tick(d)

SpecPace == Init /\ [][NextPace]_vars

\* =========================================================== rotation
\* everything the rotation scheduler leaves alone
relaying == <<userMessageCounts, calls, relay_channels, message_map, originals, posted,
              msg, pc, cred, log, nextMsg, mirror>>

ChannelOrder == <<"c1", "c2">>

\* SELECT * FROM webhooks
AllWebhooks ==
    LET S == SelectSeq(ChannelOrder, LAMBDA c : webhooks[c] # NoRow) IN
    [i \in 1..Len(S) |-> [channelId |-> S[i], webhookId |-> webhooks[S[i]].webhookId,
                          webhookToken |-> webhooks[S[i]].webhookToken]]

NoPass == [rows |-> <<>>, at |-> 0, newWebhook |-> NoRow]

\* the row of allWebhooks the for loop is at
Current == snapshot.rows[snapshot.at]

\* the persisted store a process can start with: no identity row, one, or
\* one per channel, and the watermark absent or written at time 0
StoredRows == {0, 1, 2}
StoredRow(k, c) ==
    IF c = "c1" /\ k >= 1 THEN [webhookId |-> 1, webhookToken |-> 1]
    ELSE IF c = "c2" /\ k >= 2 THEN [webhookId |-> 2, webhookToken |-> 2]
    ELSE NoRow

InitRot ==
    /\ now = 0
    /\ userMessageCounts = [u \in Users |-> <<>>]
    /\ calls = <<>>
    /\ \E k \in StoredRows :
          /\ webhooks = [c \in Channels |-> StoredRow(k, c)]
          /\ remote = 1..k
          /\ nextWebhook = k
    /\ relay_channels = {}
    /\ message_map = {}
    /\ originals = {}
    /\ posted = {}
    /\ msg = [h \in Handlers |-> NoMsg]
    /\ pc = [h \in Handlers |-> "none"]
    /\ cred = [h \in Handlers |-> NoRow]
    /\ log = [h \in Handlers |-> <<>>]
    /\ nextMsg = 1
    /\ ticks = 0
    /\ watermark \in {NoWatermark, 0}
    /\ timer = <<>>
    /\ rpc = "off"
    /\ caller = "none"
    /\ snapshot = NoPass
    /\ rlog = <<>>
    /\ restarts = 0
    /\ delivered = [deletes |-> {}, replays |-> 0, updates |-> 0]
    /\ content = [m \in 1..MaxMsgs |-> 0]
    /\ found = [h \in Handlers |-> NoMapping]

\* the clock advances while the process is down, waits for its timer or
\* waits for the platform
RotTick ==
    /\ ticks < MaxRotTicks
    /\ rpc \in {"off", "waiting", "fetch", "unhook", "create"}
    /\ ticks' = ticks + 1
    /\ now' = now + RotStep
    /\ UNCHANGED <<store, remote, nextWebhook, relaying, watermark, timer, rpc, caller, snapshot, rlog, restarts>>

\* client.once('ready'): await scheduleRotation()
Ready ==
    /\ rpc = "off"
    /\ rpc' = "start"
    /\ UNCHANGED <<now, ticks, store, remote, nextWebhook, relaying, watermark, timer, caller, snapshot, rlog, restarts>>

\* the process ends: its timers and its memory are gone, the store stays
Exit ==
    /\ rpc # "off"
    /\ restarts < MaxRestarts
    /\ restarts' = restarts + 1
    /\ rpc' = "off"
    /\ timer' = <<>>
    /\ caller' = "none"
    /\ snapshot' = NoPass
    /\ rlog' = <<>>
    /\ UNCHANGED <<now, ticks, store, remote, nextWebhook, relaying, watermark>>

\* now >= lastRotationTimestamp + ROTATION_INTERVAL with > in place of >=
OverdueStrict(lastRotationTimestamp, t) == t > lastRotationTimestamp + ROTATION_INTERVAL

Overdue(lastRotationTimestamp, t) == t >= lastRotationTimestamp + ROTATION_INTERVAL

\* SR_Start computing the timer from the time of the start, not from the
\* watermark
SR_StartFromNow ==
    /\ rpc = "start"
    /\ IF watermark = NoWatermark \/ Overdue(watermark, now)
       THEN /\ rpc' = "pass"
            /\ caller' = "startup"
            /\ UNCHANGED timer
       ELSE /\ rpc' = "waiting"
            /\ timer' = Append(timer, now + ROTATION_INTERVAL)
            /\ UNCHANGED caller
    /\ UNCHANGED <<now, ticks, store, remote, nextWebhook, relaying, watermark, snapshot, rlog, restarts>>

\* scheduleRotation up to rotateWebhooks() or setTimeout
SR_Start ==
    /\ rpc = "start"
    /\ IF watermark = NoWatermark \/ Overdue(watermark, now)
       THEN /\ rpc' = "pass"
            /\ caller' = "startup"
            /\ UNCHANGED timer
       ELSE /\ rpc' = "waiting"
            /\ timer' = Append(timer, watermark + ROTATION_INTERVAL)
            /\ UNCHANGED caller
    /\ UNCHANGED <<now, ticks, store, remote, nextWebhook, relaying, watermark, snapshot, rlog, restarts>>

\* the setTimeout callback: await rotateWebhooks()
TimerFires ==
    /\ rpc = "waiting"
    /\ timer # <<>>
    /\ now >= Head(timer)
    /\ timer' = Tail(timer)
    /\ rpc' = "pass"
    /\ caller' = "timer"
    /\ UNCHANGED <<now, ticks, store, remote, nextWebhook, relaying, watermark, snapshot, rlog, restarts>>

\* the value written to bot_meta: the time of day in place of Date.now()
TimestampOfDay(t) == t % ROTATION_INTERVAL

\* Date.now().toString(), read back with parseInt
Timestamp(t) == t

\* rotateWebhooks: db.all; with no row the watermark is written at once
RW_Begin ==
    /\ rpc = "pass"
    /\ rlog' = <<>>
    /\ IF Len(AllWebhooks) = 0
       THEN /\ watermark' = Timestamp(now)
            /\ snapshot' = NoPass
            /\ rpc' = "written"
       ELSE /\ snapshot' = [rows |-> AllWebhooks, at |-> 1, newWebhook |-> NoRow]
            /\ rpc' = "fetch"
            /\ UNCHANGED watermark
    /\ UNCHANGED <<now, ticks, store, remote, nextWebhook, relaying, timer, caller, restarts>>

Outcome(o) == [channelId |-> Current.channelId, old |-> Current.webhookId, outcome |-> o]

\* await client.channels.fetch(webhook.channelId), or its throw
RW_Fetch ==
    /\ rpc = "fetch"
    /\ \/ /\ rpc' = "unhook"
          /\ UNCHANGED rlog
       \/ /\ rpc' = "drop"
          /\ rlog' = Append(rlog, Outcome("fetchFailed"))
    /\ UNCHANGED <<now, ticks, store, remote, nextWebhook, relaying, watermark, timer, caller, snapshot, restarts>>

\* await oldWebhookClient.delete().catch(() => {})
RW_DeleteOld ==
    /\ rpc = "unhook"
    /\ \/ remote' = remote \ {Current.webhookId}
       \/ UNCHANGED remote
    /\ rpc' = "create"
    /\ UNCHANGED <<now, ticks, store, nextWebhook, relaying, watermark, timer, caller, snapshot, rlog, restarts>>

\* await channel.createWebhook(...), or its throw
RW_Create ==
    /\ rpc = "create"
    /\ \/ /\ nextWebhook < MaxRotated
          /\ nextWebhook' = nextWebhook + 1
          /\ remote' = remote \cup {nextWebhook + 1}
          /\ snapshot' = [snapshot EXCEPT !.newWebhook =
                             [webhookId |-> nextWebhook + 1, webhookToken |-> nextWebhook + 1]]
          /\ rpc' = "update"
          /\ UNCHANGED rlog
       \/ /\ rpc' = "drop"
          /\ rlog' = Append(rlog, Outcome("createFailed"))
          /\ UNCHANGED <<remote, nextWebhook, snapshot>>
    /\ UNCHANGED <<now, ticks, store, relaying, watermark, timer, caller, restarts>>

\* the for loop goes to its next row, or the pass goes on to the watermark
NextRow ==
    IF snapshot.at < Len(snapshot.rows)
    THEN /\ snapshot' = [snapshot EXCEPT !.at = @ + 1, !.newWebhook = NoRow]
         /\ rpc' = "fetch"
    ELSE /\ snapshot' = [snapshot EXCEPT !.newWebhook = NoRow]
         /\ rpc' = "stamp"

\* await db.run('UPDATE webhooks SET ... WHERE channelId = ?'), or its throw
\* RW_Update that stores the new id and leaves the token of the old webhook
RW_UpdateIdOnly ==
    /\ rpc = "update"
    /\ \/ /\ webhooks' = IF webhooks[Current.channelId] # NoRow
                         THEN [webhooks EXCEPT ![Current.channelId].webhookId =
                                                    snapshot.newWebhook.webhookId]
                         ELSE webhooks
          /\ rlog' = Append(rlog, Outcome("rotated"))
          /\ NextRow
       \/ /\ rpc' = "drop"
          /\ rlog' = Append(rlog, Outcome("updateFailed"))
          /\ UNCHANGED <<webhooks, snapshot>>
    /\ UNCHANGED <<now, ticks, relay_channels, message_map, remote, nextWebhook, relaying, watermark, timer, caller, restarts>>

RW_Update ==
    /\ rpc = "update"
    /\ \/ /\ webhooks' = IF webhooks[Current.channelId] # NoRow
                         THEN [webhooks EXCEPT ![Current.channelId] = snapshot.newWebhook]
                         ELSE webhooks
          /\ rlog' = Append(rlog, Outcome("rotated"))
          /\ NextRow
       \/ /\ rpc' = "drop"
          /\ rlog' = Append(rlog, Outcome("updateFailed"))
          /\ UNCHANGED <<webhooks, snapshot>>
    /\ UNCHANGED <<now, ticks, relay_channels, message_map, remote, nextWebhook, relaying, watermark, timer, caller, restarts>>

\* RW_Drop leaving the loop: a failure ends the pass
RW_DropAborts ==
    /\ rpc = "drop"
    /\ webhooks' = [webhooks EXCEPT ![Current.channelId] = NoRow]
    /\ snapshot' = [snapshot EXCEPT !.newWebhook = NoRow]
    /\ rpc' = "stamp"
    /\ UNCHANGED <<now, ticks, relay_channels, message_map, remote, nextWebhook, relaying, watermark, timer, caller, rlog, restarts>>

\* catch: await db.run('DELETE FROM webhooks WHERE channelId = ?')
RW_Drop ==
    /\ rpc = "drop"
    /\ webhooks' = [webhooks EXCEPT ![Current.channelId] = NoRow]
    /\ NextRow
    /\ UNCHANGED <<now, ticks, relay_channels, message_map, remote, nextWebhook, relaying, watermark, timer, caller, rlog, restarts>>

\* RW_Stamp writing the watermark only when a webhook was rotated
RW_StampIfRotated ==
    /\ rpc = "stamp"
    /\ watermark' = IF \E i \in 1..Len(rlog) : rlog[i].outcome = "rotated"
                    THEN Timestamp(now) ELSE watermark
    /\ rpc' = "written"
    /\ UNCHANGED <<now, ticks, store, remote, nextWebhook, relaying, timer, caller, snapshot, rlog, restarts>>

\* after the loop: INSERT OR REPLACE INTO bot_meta
RW_Stamp ==
    /\ rpc = "stamp"
    /\ watermark' = Timestamp(now)
    /\ rpc' = "written"
    /\ UNCHANGED <<now, ticks, store, remote, nextWebhook, relaying, timer, caller, snapshot, rlog, restarts>>

\* SR_Return whose timer callback sets a timer of its own before it calls
\* scheduleRotation()
SR_ReturnArmsTwice ==
    /\ rpc = "written"
    /\ timer' = Append(timer, now + ROTATION_INTERVAL)
    /\ rpc' = IF caller = "startup" THEN "waiting" ELSE "start"
    /\ UNCHANGED <<now, ticks, store, remote, nextWebhook, relaying, watermark, caller, snapshot, rlog, restarts>>

\* rotateWebhooks has returned: scheduleRotation sets its timer, the timer
\* callback calls scheduleRotation()
SR_Return ==
    /\ rpc = "written"
    /\ IF caller = "startup"
       THEN /\ timer' = Append(timer, now + ROTATION_INTERVAL)
            /\ rpc' = "waiting"
       ELSE /\ rpc' = "start"
            /\ UNCHANGED timer
    /\ UNCHANGED <<now, ticks, store, remote, nextWebhook, relaying, watermark, caller, snapshot, rlog, restarts>>

NextRot ==
    \/ RotTick
    \/ Ready
    \/ Exit
    \/ SR_Start
    \/ TimerFires
    \/ RW_Begin
    \/ RW_Fetch
    \/ RW_DeleteOld
    \/ RW_Create
    \/ RW_Update
    \/ RW_Drop
    \/ RW_Stamp
    \/ SR_Return

SpecRot == InitRot /\ [][NextRot]_vars

\* the steps of the process: the event loop runs every callback that is
\* ready, every call to the store or the platform returns or throws, and a
\* process that ended is started again
Scheduled ==
    \/ Ready
    \/ SR_Start
    \/ TimerFires
    \/ RW_Begin
    \/ RW_Fetch
    \/ RW_DeleteOld
    \/ RW_Create
    \/ RW_Update
    \/ RW_Drop
    \/ RW_Stamp
    \/ SR_Return

SpecRotFair == SpecRot /\ WF_vars(Scheduled)

\* ============================================================ mirroring
\* a mirroring handler that has returned (or has not been called yet)
ReturnedMirror(h) == pc[h] \in {"none", "ignored", "done"}

\* an original that was posted and is no longer on the platform
Deleted(m) == m \in 1..(nextMsg - 1) /\ m \notin originals

\* the platform dispatches messageUpdate for an original that was edited
\* while it existed; the content of the event is a new version. A message
\* of a bot was never relayed.
DispatchUpdate(h, m, a) ==
    /\ ReturnedMirror(h)
    /\ m \in 1..(nextMsg - 1)
    /\ IsBot(a) => \A row \in message_map : row.originalMessageId # m
    /\ delivered.updates < MaxUpdates
    /\ delivered' = [delivered EXCEPT !.updates = @ + 1]
    /\ msg' = [msg EXCEPT ![h] = [id |-> m, kind |-> "update", author |-> a, channel |-> "c1", empty |-> FALSE]]
    /\ pc' = [pc EXCEPT ![h] = "updateEvent"]
    /\ log' = [log EXCEPT ![h] = <<>>]
    /\ cred' = [cred EXCEPT ![h] = NoRow]
    /\ found' = [found EXCEPT ![h] = NoMapping]
    /\ UNCHANGED <<now, ticks, rotation, userMessageCounts, calls, store, platform, nextMsg, content>>

\* the platform dispatches messageDelete for an original that was deleted;
\* an event can be dispatched again
DispatchDelete(h, m) ==
    /\ ReturnedMirror(h)
    /\ Deleted(m)
    /\ IF m \in delivered.deletes
       THEN /\ delivered.replays < MaxReplays
            /\ delivered' = [delivered EXCEPT !.replays = @ + 1]
       ELSE delivered' = [delivered EXCEPT !.deletes = @ \cup {m}]
    /\ msg' = [msg EXCEPT ![h] = [id |-> m, kind |-> "delete", author |-> "admin", channel |-> "c1", empty |-> FALSE]]
    /\ pc' = [pc EXCEPT ![h] = "deleteEvent"]
    /\ log' = [log EXCEPT ![h] = <<>>]
    /\ cred' = [cred EXCEPT ![h] = NoRow]
    /\ found' = [found EXCEPT ![h] = NoMapping]
    /\ UNCHANGED <<now, ticks, rotation, userMessageCounts, calls, store, platform, nextMsg, content>>

\* SELECT * FROM message_map WHERE originalMessageId = ?
Lookup(m) ==
    IF \E row \in message_map : row.originalMessageId = m
    THEN CHOOSE row \in message_map : row.originalMessageId = m
    ELSE NoMapping

\* newMessage.content
newContent(h) == delivered.updates

\* the platform accepts an edit or a deletion of the relayed message made
\* with the credential of the mapping row
MirrorAccepted(h) ==
    /\ found[h].webhookId \in remote
    /\ \E p \in posted : p.id = found[h].webhookMessageId /\ p.webhookId = found[h].webhookId

\* messageUpdate: the test of the author, then db.get of the mapping
MU_Lookup(h) ==
    /\ pc[h] = "updateEvent"
    /\ IF IsBot(msg[h].author) \/ Lookup(msg[h].id) = NoMapping
       THEN /\ Advance(h, "ignored", <<>>)
            /\ UNCHANGED found
       ELSE /\ found' = [found EXCEPT ![h] = Lookup(msg[h].id)]
            /\ Advance(h, "edit", <<>>)
    /\ UNCHANGED <<now, ticks, rotation, userMessageCounts, calls, store, platform, msg, cred, nextMsg, delivered, content>>

\* MU_Edit that removes the mapping row when the edit fails
MU_EditPurges(h) ==
    /\ pc[h] = "edit"
    /\ \/ /\ MirrorAccepted(h)
          /\ content' = [content EXCEPT ![msg[h].id] = newContent(h)]
          /\ Advance(h, "done", <<"edited">>)
          /\ UNCHANGED message_map
       \/ /\ Advance(h, "done", <<"editFailed">>)
          /\ message_map' = {row \in message_map : row.originalMessageId # msg[h].id}
          /\ UNCHANGED content
    /\ UNCHANGED <<now, ticks, rotation, userMessageCounts, calls, webhooks, relay_channels, platform, msg, cred, nextMsg, delivered, found>>

\* await webhookClient.editMessage(mapping.webhookMessageId, ...), or its
\* throw, which is logged
MU_Edit(h) ==
    /\ pc[h] = "edit"
    /\ \/ /\ MirrorAccepted(h)
          /\ content' = [content EXCEPT ![msg[h].id] = newContent(h)]
          /\ Advance(h, "done", <<"edited">>)
       \/ /\ Advance(h, "done", <<"editFailed">>)
          /\ UNCHANGED content
    /\ UNCHANGED <<now, ticks, rotation, userMessageCounts, calls, store, platform, msg, cred, nextMsg, delivered, found>>

\* messageDelete: db.get of the mapping
MD_Lookup(h) ==
    /\ pc[h] = "deleteEvent"
    /\ IF Lookup(msg[h].id) = NoMapping
       THEN /\ Advance(h, "ignored", <<>>)
            /\ UNCHANGED found
       ELSE /\ found' = [found EXCEPT ![h] = Lookup(msg[h].id)]
            /\ Advance(h, "unsend", <<>>)
    /\ UNCHANGED <<now, ticks, rotation, userMessageCounts, calls, store, platform, msg, cred, nextMsg, delivered, content>>

\* MD_DeleteRelayed that returns when the deletion fails, without the
\* finally block
MD_DeleteRelayedOrReturn(h) ==
    /\ pc[h] = "unsend"
    /\ \/ /\ MirrorAccepted(h)
          /\ posted' = {p \in posted : p.id # found[h].webhookMessageId}
          /\ Advance(h, "unmap", <<"unsent">>)
       \/ /\ Advance(h, "done", <<"unsendFailed">>)
          /\ UNCHANGED posted
    /\ UNCHANGED <<now, ticks, rotation, userMessageCounts, calls, store, remote, nextWebhook, originals, msg, cred, nextMsg, mirror>>

\* await webhookClient.deleteMessage(mapping.webhookMessageId), or its
\* throw, which is ignored
MD_DeleteRelayed(h) ==
    /\ pc[h] = "unsend"
    /\ \/ /\ MirrorAccepted(h)
          /\ posted' = {p \in posted : p.id # found[h].webhookMessageId}
          /\ Advance(h, "unmap", <<"unsent">>)
       \/ /\ Advance(h, "unmap", <<"unsendFailed">>)
          /\ UNCHANGED posted
    /\ UNCHANGED <<now, ticks, rotation, userMessageCounts, calls, store, remote, nextWebhook, originals, msg, cred, nextMsg, mirror>>

\* finally: DELETE FROM message_map WHERE originalMessageId = ?
MD_Unmap(h) ==
    /\ pc[h] = "unmap"
    /\ message_map' = {row \in message_map : row.originalMessageId # msg[h].id}
    /\ Advance(h, "done", <<"unmapped">>)
    /\ UNCHANGED <<now, ticks, rotation, userMessageCounts, calls, webhooks, relay_channels, platform, msg, cred, nextMsg, mirror>>

\* messages are relayed by one handler while another mirrors the edits and
\* the deletions
Relaying == {"h1"}
Mirroring == {"h2"}
Posters == {"admin", "bot"}

\* an administrator, whom the rate limiter lets through, posts a message
PostRelayed(h, c) ==
    /\ nextMsg <= MaxRelayed
    /\ PostMessage(h, "admin", c, FALSE)

NextMirror ==
    \/ \E c \in Watched : RelayAddChannel(c)
    \/ \E h \in Relaying, c \in Watched : PostRelayed(h, c)
    \/ \E h \in Relaying : MC_Gate(h)
    \/ \E h \in Relaying : MC_Delete(h)
    \/ \E h \in Relaying : GW_Get(h)
    \/ \E h \in Relaying : GW_Create(h)
    \/ \E h \in Relaying : GW_Insert(h)
    \/ \E h \in Relaying : GW_Purge(h)
    \/ \E h \in Relaying : SW_Send(h)
    \/ \E h \in Relaying : MC_Map(h)
    \/ \E h \in Mirroring, m \in 1..MaxRelayed, a \in Posters : DispatchUpdate(h, m, a)
    \/ \E h \in Mirroring, m \in 1..MaxRelayed : DispatchDelete(h, m)
    \/ \E h \in Mirroring : MU_Lookup(h)
    \/ \E h \in Mirroring : MU_Edit(h)
    \/ \E h \in Mirroring : MD_Lookup(h)
    \/ \E h \in Mirroring : MD_DeleteRelayed(h)
    \/ \E h \in Mirroring : MD_Unmap(h)

SpecMirror == Init /\ [][NextMirror]_vars

\* ============================================ rotation during relaying
\* the pass that the start of the process runs is interleaved with the
\* handling of messages: every await of one lets the other run
NextRace ==
    \/ \E c \in Watched : RelayAddChannel(c)
    \/ \E h \in Relaying, c \in Watched : PostRelayed(h, c)
    \/ \E h \in Relaying : MC_Gate(h)
    \/ \E h \in Relaying : MC_Delete(h)
    \/ \E h \in Relaying : GW_Get(h)
    \/ \E h \in Relaying : GW_Create(h)
    \/ \E h \in Relaying : GW_Insert(h)
    \/ \E h \in Relaying : GW_Purge(h)
    \/ \E h \in Relaying : SW_Send(h)
    \/ \E h \in Relaying : MC_Map(h)
    \/ Ready
    \/ SR_Start
    \/ RW_Begin
    \/ RW_Fetch
    \/ RW_DeleteOld
    \/ RW_Create
    \/ RW_Update
    \/ RW_Drop
    \/ RW_Stamp
    \/ SR_Return

SpecRace == InitRot /\ [][NextRace]_vars

\* ================================================= concurrent resolution
\* two /webhook invocations of members are handled at the same time: every
\* await of one handler lets the other run
NextPair ==
    \/ \E c \in Watched : RelayAddChannel(c)
    \/ \E h \in Handlers, c \in Watched : InvokeWebhookCommand(h, "user", c, FALSE)
    \/ \E h \in Handlers : IC_Gate(h)
    \/ \E h \in Handlers : GW_Get(h)
    \/ \E h \in Handlers : GW_Create(h)
    \/ \E h \in Handlers : GW_Insert(h)
    \/ \E h \in Handlers : GW_Purge(h)
    \/ \E h \in Handlers : SW_Send(h)

SpecPair == Init /\ [][NextPair]_vars

\* the steps of the /webhook handler h: every await of the handler returns
\* or throws, with whichever outcome
Resumed(h) ==
    \/ IC_Gate(h)
    \/ GW_Get(h)
    \/ GW_Create(h)
    \/ GW_Insert(h)
    \/ GW_Purge(h)
    \/ SW_Send(h)

SpecPairFair == SpecPair /\ \A h \in Handlers : WF_vars(Resumed(h))

\* ==================================================== concurrent /relay
\* /relay invocations of administrators and members for one channel are
\* handled at the same time
Invokers == {"user", "admin"}

NextFaults ==
    \/ \E h \in Handlers, a \in Invokers, sub \in Subcommands, c \in Watched :
          InvokeRelayCommand(h, a, sub, c)
    \/ \E h \in Handlers : RC_Check(h)
    \/ \E h \in Handlers : RC_Write(h)

SpecFaults == Init /\ [][NextFaults]_vars

\* ============================================== /relay among the handlers
\* /relay invocations are handled on one slot, which also handles the
\* update and delete events, while the other relays messages and the
\* process runs the rotation pass of its start; MaxEvents invocations and
\* messages arrive, and a delete event is dispatched once
MoreEvents == nextMsg <= MaxEvents

NextAdmin ==
    \/ \E h \in Mirroring, a \in Invokers, sub \in Subcommands, c \in Watched :
          MoreEvents /\ InvokeRelayCommand(h, a, sub, c)
    \/ \E h \in Mirroring : RC_Check(h)
    \/ \E h \in Mirroring : RC_Write(h)
    \/ \E h \in Relaying, c \in Watched : MoreEvents /\ PostRelayed(h, c)
    \/ \E h \in Relaying : MC_Gate(h)
    \/ \E h \in Relaying : MC_Delete(h)
    \/ \E h \in Relaying : GW_Get(h)
    \/ \E h \in Relaying : GW_Create(h)
    \/ \E h \in Relaying : GW_Insert(h)
    \/ \E h \in Relaying : GW_Purge(h)
    \/ \E h \in Relaying : SW_Send(h)
    \/ \E h \in Relaying : MC_Map(h)
    \/ \E h \in Mirroring, m \in 1..MaxEvents : DispatchUpdate(h, m, "admin")
    \/ \E h \in Mirroring, m \in 1..MaxEvents :
          m \notin delivered.deletes /\ DispatchDelete(h, m)
    \/ \E h \in Mirroring : MU_Lookup(h)
    \/ \E h \in Mirroring : MU_Edit(h)
    \/ \E h \in Mirroring : MD_Lookup(h)
    \/ \E h \in Mirroring : MD_DeleteRelayed(h)
    \/ \E h \in Mirroring : MD_Unmap(h)
    \/ Ready
    \/ SR_Start
    \/ RW_Begin
    \/ RW_Fetch
    \/ RW_DeleteOld
    \/ RW_Create
    \/ RW_Update
    \/ RW_Drop
    \/ RW_Stamp
    \/ SR_Return

SpecAdmin == Init /\ [][NextAdmin]_vars

\* ================================================================ claims
Has(h, e) == \E i \in 1..Len(log[h]) : log[h][i] = e

\* every e2 of the handler's log comes after some e1
Precedes(h, e1, e2) ==
    \A j \in 1..Len(log[h]) : log[h][j] = e2 => \E i \in 1..(j - 1) : log[h][i] = e1

DeleteIssued(h) == Has(h, "delete") \/ Has(h, "deleteFailed")

RowOf(m) == {row \in message_map : row.originalMessageId = m}

InSendWebhookMessage(h) == pc[h] \in {"get", "create", "insert", "purge", "send", "sent", "nosend", "done"}

\* C1: a message_map row exists only for an original whose webhook send
\* returned a sent message: the sent message is on the platform, posted
\* through the identity the row names, and the handler that has no result
\* (identity null, or the send threw) has written no row.
C1_MappingOnlyAfterSend ==
    /\ \A row \in message_map :
          \E p \in posted : /\ p.id = sentId(row.originalMessageId)
                            /\ p.id = row.webhookMessageId
                            /\ p.webhookId = row.webhookId
    /\ \A h \in Handlers :
          RowOf(msg[h].id) # {} => /\ msg[h].kind = "message"
                                   /\ Has(h, "sent")
                                   /\ ~Has(h, "sendFailed")
                                   /\ ~Has(h, "unknownWebhook")
                                   /\ ~Has(h, "noWebhook")

\* a mapping row exists, and a later message ended without a result and
\* without a row
C1_Witness ==
    /\ message_map # {}
    /\ \E h \in Handlers : /\ msg[h].kind = "message"
                           /\ pc[h] = "nosend"
                           /\ RowOf(msg[h].id) = {}

\* C2: in the handling of one message the steps come in the order delete
\* original, rate-limit check, relay send, mapping insert; the deletion is
\* the first thing the handler does, whatever the rate limiter and the
\* send answer later.
C2_PipelineOrder ==
    \A h \in Handlers :
        msg[h].kind = "message" =>
            /\ Len(log[h]) > 0 => log[h][1] \in {"delete", "deleteFailed"}
            /\ Precedes(h, "delete", "ratecheck")
            /\ Precedes(h, "delete", "send")
            /\ \/ IsAdministrator(msg[h].author)
               \/ Precedes(h, "ratecheck", "send")
            /\ Precedes(h, "send", "sent")
            /\ Precedes(h, "sent", "map")

\* a non-administrator's message went through all four steps
C2_Witness ==
    \E h \in Handlers :
        /\ pc[h] = "done"
        /\ Has(h, "delete") /\ Has(h, "ratecheck") /\ Has(h, "send") /\ Has(h, "map")

\* C3: in the allow-listed variant every non-bot message in an allowed
\* channel has its original deleted, and the deletion is issued before the
\* relay send is attempted, whatever the later steps do.
C3_AllowListedDeletesFirst ==
    \A h \in Handlers :
        (/\ msg[h].kind = "message"
         /\ ~IsBot(msg[h].author)
         /\ msg[h].channel \in ALLOWED_CHANNEL_IDS
         /\ pc[h] # "gate") =>
            /\ Precedes(h, "delete", "send") \/ Precedes(h, "deleteFailed", "send")
            /\ ReturnedAllow(h) => DeleteIssued(h)

\* C4: a message that resolved the channel's stored identity and whose
\* send met error 10015 (the identity was deleted on the platform) is
\* delivered all the same, and the stale row is gone when its handler
\* returns.
C4_StaleIdentityRecovered ==
    \A h \in Handlers :
        (/\ msg[h].kind = "message"
         /\ Returned(h)
         /\ Has(h, "unknownWebhook")
         /\ ~Has(h, "created")
         /\ ~msg[h].empty) =>
            /\ Has(h, "sent")
            /\ webhooks[msg[h].channel] # cred[h]

\* the calls of one user, in order
UserCalls(u) == SelectSeq(calls, LAMBDA c : c.user = u)

\* the number of calls before the i-th of S whose time lies in the
\* trailing window (S[i].at - 60000, S[i].at]
InWindowBefore(S, i) ==
    Cardinality({j \in 1..(i - 1) : S[j].at > S[i].at - RATE_LIMIT_WINDOW})

\* C5: a call with at least 3 earlier calls of the same user in its
\* trailing window returns limited; a call with an empty trailing window
\* and the next two calls of that user are not limited.
C5_LimitsFourthInWindow ==
    \A u \in Users :
        LET S == UserCalls(u) IN
        \A i \in 1..Len(S) :
            /\ InWindowBefore(S, i) >= RATE_LIMIT_MAX => S[i].limited
            /\ InWindowBefore(S, i) = 0 =>
                  \A j \in i..Len(S) : j < i + RATE_LIMIT_MAX => ~S[j].limited

\* a fourth call in the window was limited and, the window having passed,
\* a later call of the user was not
C5_Witness ==
    \E u \in Users :
        LET S == UserCalls(u) IN
        \E i, j \in 1..Len(S) :
            /\ i < j
            /\ InWindowBefore(S, i) >= RATE_LIMIT_MAX /\ S[i].limited
            /\ InWindowBefore(S, j) = 0 /\ ~S[j].limited

\* S[k], S[k+1], S[k+2] were accepted, the calls after them were rejected
\* while S[k] was less than 60 s old, and S[i] is the first call made once
\* S[k] is 60 s old or more
AfterThreeAccepted(S, k, i) ==
    /\ k + RATE_LIMIT_MAX < i
    /\ i <= Len(S)
    /\ \A j \in k..(k + RATE_LIMIT_MAX - 1) : ~S[j].limited
    /\ \A j \in (k + RATE_LIMIT_MAX)..(i - 1) :
          S[j].limited /\ S[j].at < S[k].at + RATE_LIMIT_WINDOW
    /\ S[i].at >= S[k].at + RATE_LIMIT_WINDOW

\* C6 as claimed: that first call is not limited, whenever the rejected
\* events were made.
C6_AcceptsAfterOldestExpires ==
    \A u \in Users :
        LET S == UserCalls(u) IN
        \A k, i \in 1..Len(S) : AfterThreeAccepted(S, k, i) => ~S[i].limited

\* C6 as amended: that first call is limited exactly when 3 or more of the
\* user's earlier calls, accepted or rejected, lie in its trailing window.
C6_AcceptsUnlessWindowFull ==
    \A u \in Users :
        LET S == UserCalls(u) IN
        \A k, i \in 1..Len(S) :
            AfterThreeAccepted(S, k, i) =>
                (S[i].limited <=> InWindowBefore(S, i) >= RATE_LIMIT_MAX)

\* that first call was limited: the rejected events were still in its window
C6_Witness ==
    \E u \in Users :
        LET S == UserCalls(u) IN
        \E k, i \in 1..Len(S) : AfterThreeAccepted(S, k, i) /\ S[i].limited

\* C7: a /webhook invocation of a non-administrator whose window already
\* holds 3 events is refused, without any relay send.
C7_CommandRateLimited ==
    [][\A h \in Handlers :
          (/\ pc[h] = "cmdgate"
           /\ pc'[h] # "cmdgate"
           /\ ~IsAdministrator(msg[h].author)
           /\ Len(Trim(userMessageCounts[msg[h].author], now)) >= RATE_LIMIT_MAX) =>
              pc'[h] = "refused"
      ]_vars

\* the rate limiter was called for the handler's message and found the
\* user's window over the limit
OverLimit(h) ==
    /\ msg[h].kind = "message"
    /\ Has(h, "ratecheck")
    /\ Len(userMessageCounts[msg[h].author]) > RATE_LIMIT_MAX

\* C8: a message found over the rate limit has its original deleted, and
\* its handler resolves no identity, sends nothing and writes no row, with
\* the private notice delivered or not.
C8_RateLimitedStops ==
    \A h \in Handlers :
        OverLimit(h) =>
            /\ pc[h] \in {"notify", "limited"}
            /\ msg[h].id \notin originals
            /\ ~Has(h, "resolved") /\ ~Has(h, "created") /\ ~Has(h, "send")
            /\ cred[h] = NoRow
            /\ RowOf(msg[h].id) = {}
            /\ \A p \in posted : p.id # sentId(msg[h].id)
            /\ pc[h] = "limited" => Has(h, "notice") \/ Has(h, "noticeFailed")

\* a limited message whose notice could not be delivered
C8_Witness ==
    \E h \in Handlers : OverLimit(h) /\ pc[h] = "limited" /\ Has(h, "noticeFailed")

C10_GateIgnores ==
    [][\A h \in Handlers :
          /\ (/\ pc[h] = "gate"
              /\ pc'[h] # "gate"
              /\ IsBot(msg[h].author) \/ msg[h].channel \notin relay_channels) =>
                 /\ pc'[h] = "ignored"
                 /\ UNCHANGED <<userMessageCounts, store, platform, cred, log, msg>>
          /\ pc'[h] = "ignored" => log'[h] = <<>> /\ msg'[h].id \in originals'
      ]_vars

\* a bot's message in a relay channel was ignored and is still there
C10_Witness ==
    \E h \in Handlers :
        /\ pc[h] = "ignored"
        /\ IsBot(msg[h].author)
        /\ msg[h].channel \in relay_channels
        /\ msg[h].id \in originals

InPass == rpc \in {"pass", "fetch", "unhook", "create", "update", "drop", "stamp"}

C12_StartupBranches ==
    [][(rpc = "start" /\ caller = "none" /\ rpc' \notin {"start", "off"}) =>
          /\ watermark = NoWatermark =>
                rpc' = "pass" /\ caller' = "startup" /\ timer' = <<>>
          /\ (watermark # NoWatermark /\ now >= watermark + ROTATION_INTERVAL) =>
                rpc' = "pass" /\ caller' = "startup" /\ timer' = <<>>
          /\ (watermark # NoWatermark /\ now < watermark + ROTATION_INTERVAL) =>
                /\ rpc' = "waiting"
                /\ timer' = <<watermark + ROTATION_INTERVAL>>
                /\ UNCHANGED <<watermark, store, remote, nextWebhook, rlog>>
      ]_vars

\* a process started a second time found the watermark of an earlier pass
\* not yet due and waits
C12_Witness ==
    /\ restarts >= 1
    /\ rpc = "waiting" /\ caller = "none"
    /\ watermark > 0
    /\ now < watermark + ROTATION_INTERVAL

C14_WatermarkMonotonic ==
    [][watermark # NoWatermark =>
          watermark' # NoWatermark /\ watermark' >= watermark]_vars

\* the watermark was rewritten by a later pass, with a restart on the way
C14_Witness ==
    /\ restarts >= 1
    /\ watermark >= ROTATION_INTERVAL
    /\ rpc = "waiting"

\* the for loop of the pass is over
LoopDone == rpc \in {"stamp", "written", "waiting", "start"} /\ snapshot.rows # <<>>

Finished == IF rpc = "drop" THEN 1..(Len(rlog) - 1) ELSE 1..Len(rlog)

\* C16: a row whose channel was fetched, and whose rotation failed at a
\* later step, is still in the store.
C16_RowDeletedOnlyIfUnreachable ==
    \A i \in Finished :
        rlog[i].outcome \in {"createFailed", "updateFailed"} =>
            webhooks[rlog[i].channelId] # NoRow

\* the handler of a delete event for an original
OnDelete(h) == msg[h].kind = "delete"

\* C17: a delete event for an original without a mapping row changes
\* nothing; with a row, the relayed message is deleted with the credential
\* of the row, or the attempt fails, and in both cases the row is removed
\* afterwards; a handler that has returned leaves no row, so that the same
\* event handled again finds none.
C17_DeleteMirrored ==
    /\ [][\A h \in Handlers :
             (OnDelete(h) /\ pc[h] = "deleteEvent" /\ pc'[h] # pc[h]) =>
                 IF RowOf(msg[h].id) = {}
                 THEN /\ pc'[h] = "ignored"
                      /\ UNCHANGED <<store, platform, content, found>>
                 ELSE /\ pc'[h] = "unsend"
                      /\ found'[h] \in RowOf(msg[h].id)
                      /\ UNCHANGED <<store, platform, content>>
         ]_vars
    /\ [](\A h \in Handlers :
             OnDelete(h) =>
                 /\ Has(h, "unsent") =>
                       /\ \A p \in posted : p.id # found[h].webhookMessageId
                       /\ found[h].originalMessageId = msg[h].id
                 /\ Precedes(h, "unsent", "unmapped") \/ Precedes(h, "unsendFailed", "unmapped")
                 /\ pc[h] = "done" => Has(h, "unmapped") /\ RowOf(msg[h].id) = {}
                 /\ pc[h] = "ignored" => log[h] = <<>>)

\* the row of a relayed message was removed by its delete event, and the
\* event dispatched a second time was ignored
C17_Witness ==
    \E h \in Handlers, r \in Handlers :
        /\ OnDelete(h) /\ pc[h] = "ignored"
        /\ delivered.replays >= 1
        /\ msg[r].kind = "message" /\ msg[r].id = msg[h].id
        /\ Has(r, "map")
        /\ RowOf(msg[h].id) = {}
        /\ \A p \in posted : p.id # sentId(msg[h].id)

\* the handler of an edit event for an original
OnUpdate(h) == msg[h].kind = "update"

\* C18: an edit event of a bot, or for an original without a mapping row,
\* changes nothing; with a row, the relayed message is edited with the
\* credential of the row and gets the new content; when the edit fails
\* nothing changes, and in no case does the handler touch the row.
C18_EditMirrored ==
    [][\A h \in Handlers :
          /\ (OnUpdate(h) /\ pc[h] = "updateEvent" /\ pc'[h] # pc[h]) =>
                IF IsBot(msg[h].author) \/ RowOf(msg[h].id) = {}
                THEN /\ pc'[h] = "ignored"
                     /\ UNCHANGED <<store, platform, content, found>>
                ELSE /\ pc'[h] = "edit"
                     /\ found'[h] \in RowOf(msg[h].id)
                     /\ UNCHANGED <<store, platform, content>>
          /\ (OnUpdate(h) /\ pc[h] = "edit" /\ pc'[h] # pc[h]) =>
                /\ pc'[h] = "done"
                /\ UNCHANGED <<store, platform>>
                /\ \/ /\ log'[h] = <<"edited">>
                      /\ found[h].webhookId \in remote
                      /\ content' = [content EXCEPT ![msg[h].id] = newContent(h)]
                   \/ /\ log'[h] = <<"editFailed">>
                      /\ UNCHANGED content
      ]_vars

\* the edit of a relayed message failed and its row is still there
C18_Witness ==
    \E h \in Handlers :
        /\ OnUpdate(h) /\ pc[h] = "done"
        /\ Has(h, "editFailed")
        /\ found[h] \in message_map
        /\ content[msg[h].id] = 0

\* a delete event for the original m is being handled
Unmapping(m) ==
    \E h \in Handlers : OnDelete(h) /\ msg[h].id = m /\ pc[h] \in {"deleteEvent", "unsend", "unmap"}

\* C19: a mapping row whose original is deleted is not left for ever: its
\* delete event is still to be dispatched, or can be dispatched again, or
\* is being handled. (Only the handler of a delete event removes a row.)
C19_NoDanglingRow ==
    \A row \in message_map :
        Deleted(row.originalMessageId) =>
            \/ row.originalMessageId \notin delivered.deletes
            \/ delivered.replays < MaxReplays
            \/ Unmapping(row.originalMessageId)

\* C20: the calls of getOrCreateWebhook for one channel that have returned
\* an identity, with no rotation pass in between, have returned the same
\* id and token.
C20_SameIdentityInEpoch ==
    \A h \in Handlers, k \in Handlers :
        (/\ Has(h, "resolved")
         /\ Has(k, "resolved")
         /\ msg[h].channel = msg[k].channel) =>
            cred[h] = cred[k]

\* C21: the handler of the delete event caused by the pipeline's own
\* deletion of the original, dispatched once, finds no mapping row under
\* every interleaving with the pipeline: it never goes on to delete the
\* relayed copy.
C21_OwnDeleteFindsNoMapping ==
    \A h \in Handlers :
        (OnDelete(h) /\ delivered.replays = 0) =>
            pc[h] \in {"deleteEvent", "ignored"}

\* C23: a message of the multi-channel variant with no content and no
\* attachment resolves and creates no identity and attempts no send.
C23_EmptyStopsSilently ==
    \A h \in Handlers :
        (msg[h].kind = "message" /\ msg[h].empty) =>
            /\ ~Has(h, "resolved")
            /\ ~Has(h, "created")
            /\ ~Has(h, "send")
            /\ RowOf(msg[h].id) = {}

\* the sequence is in non-decreasing order
Sorted(S) == \A i, j \in 1..Len(S) : i <= j => S[i] <= S[j]

\* C27: the step of an isUserRateLimited call at time t leaves the caller's
\* sequence in non-decreasing order, with only timestamps greater than
\* t - 60000, ending with t, and leaves the sequences of the other users as
\* they were.
C27_WindowAfterCall ==
    [][calls' # calls =>
          LET c == calls'[Len(calls')]
              S == userMessageCounts'[c.user] IN
          /\ c.at = now
          /\ Sorted(S)
          /\ \A i \in 1..Len(S) : S[i] > now - RATE_LIMIT_WINDOW /\ S[i] <= now
          /\ S[Len(S)] = now
          /\ \A u \in Users \ {c.user} : userMessageCounts'[u] = userMessageCounts[u]
      ]_vars

\* the last call trimmed a timestamp of the same user that was exactly
\* 60000 ms old
C27_Witness ==
    /\ Len(calls) >= 2
    /\ LET c == calls[Len(calls)] IN
       /\ c.at = now
       /\ \E i \in 1..(Len(calls) - 1) :
             calls[i].user = c.user /\ calls[i].at = now - RATE_LIMIT_WINDOW
       /\ \A i \in 1..Len(userMessageCounts[c.user]) :
             userMessageCounts[c.user][i] # now - RATE_LIMIT_WINDOW

\* C28: at most one timer is pending, a timer is pending only in a process
\* that waits, with no pass in progress, and a timer is set one at a time,
\* by a scheduleRotation call that holds none.
C28_SingleTimerSingleFlight ==
    [][/\ Len(timer') <= 1
       /\ timer' # <<>> => rpc' = "waiting" /\ ~InPass'
       /\ Len(timer') > Len(timer) =>
             /\ timer = <<>>
             /\ rpc \in {"start", "written"}
      ]_vars

\* the timer set after a timer-driven pass is the only one pending
C28_Witness ==
    /\ rpc = "waiting"
    /\ caller = "timer"
    /\ Len(timer) = 1
    /\ watermark >= ROTATION_INTERVAL

\* C30: once every handler has returned, each identity that exists on the
\* platform is the one stored in the row of a channel.
C30_IdentitiesAccounted ==
    (\A h \in Handlers : Returned(h)) =>
        \A w \in remote : \E c \in Channels : webhooks[c].webhookId = w

\* the gap between the k-th call of S and the one before it is shorter
\* than 15 s
ShortGap(S, k) == S[k].at - S[k - 1].at < PaceGap

\* C26 as claimed: once a call of a user was limited, every later call of
\* the user reached by gaps shorter than 15 s is limited.
C26_LimitedWhilePaceContinues ==
    \A u \in Users :
        LET S == UserCalls(u) IN
        \A i, j \in 1..Len(S) :
            (/\ i < j
             /\ S[i].limited
             /\ \A k \in (i + 1)..j : ShortGap(S, k)) => S[j].limited

\* C26 as amended: the timestamp of every call, limited or not, is the last
\* of the user's array, and a call whose three preceding gaps are all
\* shorter than 15 s is limited, whatever was decided for the calls before.
C26_LimitedAfterThreeShortGaps ==
    \A u \in Users :
        LET S == UserCalls(u)
            T == userMessageCounts[u] IN
        /\ Len(S) > 0 => Len(T) > 0 /\ T[Len(T)] = S[Len(S)].at
        /\ \A i \in 1..Len(S) :
              (/\ i > RATE_LIMIT_MAX
               /\ \A k \in (i - RATE_LIMIT_MAX + 1)..i : ShortGap(S, k)) => S[i].limited

\* a limited call was followed, after a gap just under 15 s, by a call that
\* was limited too
C26_Witness ==
    \E u \in Users :
        LET S == UserCalls(u) IN
        \E i \in 1..Len(S) :
            /\ i > RATE_LIMIT_MAX + 1
            /\ S[i - 1].limited
            /\ S[i].at - S[i - 1].at = PaceGap - 1
            /\ \A k \in (i - RATE_LIMIT_MAX + 1)..i : ShortGap(S, k)
            /\ S[i].limited

\* C22: while a pass runs, the row of every channel names an identity that
\* exists on the platform, and no send of a message fails because the
\* identity it resolved exists no more.
C22_NoMessageLostToRotation ==
    /\ InPass => \A c \in Channels :
                    webhooks[c] # NoRow => webhooks[c].webhookId \in remote
    /\ \A h \in Handlers : ~Has(h, "unknownWebhook")

\* the secret of the pair is the one issued with its id
Paired(r) == r.webhookToken = r.webhookId

\* C25: the rows of webhooks, the pair a handler resolved, the pair a pass
\* created and the rows of message_map each hold an id with the secret
\* issued with it; the pair of a mapping row is the one the relayed message
\* was sent with; no step of rotation changes message_map.
C25_PairsIssuedTogether ==
    /\ [](/\ \A c \in Channels : Paired(webhooks[c])
          /\ \A h \in Handlers : Paired(cred[h])
          /\ Paired(snapshot.newWebhook)
          /\ \A row \in message_map :
                /\ Paired(row)
                /\ \E p \in posted : p.id = row.webhookMessageId /\ p.webhookId = row.webhookId)
    /\ [][rotation' # rotation => message_map' = message_map]_vars

\* a pass has replaced the identity of a channel and the mapping row of a
\* message relayed before it still holds the pair it was sent with
C25_Witness ==
    /\ LoopDone
    /\ \E i \in 1..Len(rlog) : rlog[i].outcome = "rotated"
    /\ \E row \in message_map, c \in Channels :
          /\ webhooks[c] # NoRow
          /\ row.webhookId # webhooks[c].webhookId
          /\ row.webhookId \notin remote

\* C24: no handler ends with a failure of a store access or of a remote
\* call that nothing caught.
C24_NoFailureEscapes == \A h \in Handlers : pc[h] # "escaped"

\* the handler runs /relay
OnRelay(h) == msg[h].kind \in Subcommands

\* C29: a step changes relay_channels only if it is the write of a /relay
\* handler invoked by an administrator, which adds or removes the channel of
\* the invocation; no step of a /relay handler changes webhooks or
\* message_map; the handler of a member's invocation, of an addchannel for
\* an enabled channel and of a removechannel for a channel that is not
\* enabled leaves relay_channels as it was.
C29_RelayChannelsFrame ==
    [][/\ relay_channels' # relay_channels =>
             \E h \in Handlers :
                /\ OnRelay(h)
                /\ pc[h] = "relaywrite" /\ pc'[h] # pc[h]
                /\ IsAdministrator(msg[h].author)
                /\ relay_channels' = IF msg[h].kind = "addchannel"
                                     THEN relay_channels \cup {msg[h].channel}
                                     ELSE relay_channels \ {msg[h].channel}
       /\ \A h \in Handlers :
             (OnRelay(h) /\ pc'[h] # pc[h] /\ msg'[h] = msg[h]) =>
                /\ webhooks' = webhooks
                /\ message_map' = message_map
                /\ ~IsAdministrator(msg[h].author) => relay_channels' = relay_channels
                /\ (msg[h].kind = "addchannel") = (msg[h].channel \in relay_channels) =>
                      relay_channels' = relay_channels
      ]_vars

\* an administrator's addchannel has put the channel in relay_channels,
\* and it is still there after a message was relayed in the channel, its
\* delete event was handled and a rotation pass has run
C29_Witness ==
    \E h \in Handlers :
        /\ IsAdministrator(msg[h].author)
        /\ msg[h].channel \in relay_channels
        /\ webhooks[msg[h].channel] # NoRow
        /\ \E row \in message_map : row.channelId = msg[h].channel
        /\ delivered.deletes # {}
        /\ LoopDone

\* the handler is inside its call of getOrCreateWebhook
Resolving(h) == pc[h] \in {"get", "create", "insert", "purge"}

\* C31: every call of getOrCreateWebhook returns, whatever the outcomes of
\* createWebhook and of the store are: a handler that entered the call
\* leaves it.
C31_ResolutionTerminates ==
    \A h \in Handlers : Resolving(h) ~> ~Resolving(h)

====
